---- MODULE Spec2Model ----
(***************************************************************************)
(* Model of app.py, a Streamlit guessing game: generate_identity,          *)
(* ask_identity_ai, reset_game, setup_game and the event handlers of       *)
(* main().                                                                 *)
(*                                                                         *)
(* Texts are sequences of one-character strings, so that strip(), lower()  *)
(* and the substring test are computed.  A reply of the chat model to      *)
(* ask_identity_ai is a sequence of lexical tokens plus the values of the  *)
(* three fields that the token "F" stands for.  session_state.last_answer  *)
(* (written at line 345, never read) and session_state.custom_details      *)
(* (only interpolated into the generator's prompt) are not modelled.       *)
(***************************************************************************)
EXTENDS Integers, Sequences, FiniteSets, TLC

(* ------------------------------ bounds --------------------------------- *)
MaxGenLen == 2
MaxRawLen == 4
MaxMessages == 6

(* ------------------------------- texts --------------------------------- *)
SeqsUpTo(S, n) == UNION {[1..k -> S] : k \in 0..n}

SetMin(S) == CHOOSE x \in S : \A y \in S : x <= y

SetMax(S) == CHOOSE x \in S : \A y \in S : x >= y

\* str.strip(): drop leading and trailing whitespace characters
Strip(s, white) ==
    LET keep == {i \in 1..Len(s) : s[i] \notin white}
    IN IF keep = {} THEN <<>> ELSE SubSeq(s, SetMin(keep), SetMax(keep))

UpperCase == [A |-> "a", E |-> "e", N |-> "n", O |-> "o", S |-> "s", Y |-> "y"]

\* str.lower()
Lower(s) == [i \in 1..Len(s) |-> IF s[i] \in DOMAIN UpperCase THEN UpperCase[s[i]] ELSE s[i]]

\* the Python test "sub in s"
Contains(sub, s) ==
    \E i \in 0..(Len(s) - Len(sub)) : SubSeq(s, i + 1, i + Len(sub)) = sub

yes == <<"y", "e", "s">>

no == <<"n", "o">>

YesBang == <<"Y", "e", "s", "!">>

AlbertEinstein ==
    <<"A", "l", "b", "e", "r", "t", " ", "E", "i", "n", "s", "t", "e", "i", "n">>

(* ------------------------ identity generation -------------------------- *)
identity_types ==
    {"Random Character", "Historical Figure", "Fictional Character",
     "Profession/Role", "Custom"}

\* the tags generate_identity can be handed: the five above and one it does not know
AllTags == identity_types \cup {"Unknown"}

GenChars == {" ", "A"}

\* what chat() may return to the generator, before strip()
GenTexts == SeqsUpTo(GenChars, MaxGenLen)

\* max_retries of generate_identity
gen_max_retries == 3

GenRespSeqs == [1..gen_max_retries -> GenTexts]

NoneRet == [none |-> TRUE, text |-> <<>>, calls |-> 0]

RECURSIVE GenLoopFirstNonEmpty(_, _, _)
\* a loop that stops at the first non-empty reply
GenLoopFirstNonEmpty(resps, i, raw) ==
    IF i > gen_max_retries \/ raw # <<>>
    THEN [none |-> FALSE, text |-> raw, calls |-> i - 1]
    ELSE GenLoopFirstNonEmpty(resps, i + 1, Strip(resps[i], {" "}))

\* the for loop of generate_identity: raw is reassigned on every iteration
RECURSIVE GenLoop(_, _, _)
GenLoop(resps, i, raw) ==
    IF i > gen_max_retries
    THEN [none |-> FALSE, text |-> raw, calls |-> i - 1]
    ELSE GenLoop(resps, i + 1, Strip(resps[i], {" "}))

generate_identity(identity_type_, resps) ==
    IF identity_type_ \in identity_types
    THEN GenLoop(resps, 1, <<>>)
    ELSE NoneRet

\* the values generate_identity can return for a tag
GenReturns == [t \in AllTags |-> {generate_identity(t, resps) : resps \in GenRespSeqs}]

\* truth value of the return value: None and "" are falsy
Truthy(r) == ~r.none /\ r.text # <<>>

(* ------------------------- answer validation --------------------------- *)
ReplyTexts == {yes, <<"N", "o">>, <<"h", "m">>}

IdentityAnswer == [response : ReplyTexts, is_question : BOOLEAN, is_correct_guess : BOOLEAN]

NoAnswer == [response |-> <<>>, is_question |-> FALSE, is_correct_guess |-> FALSE]

\* "{" "}"  braces; "F" the three fields, correctly typed; "B" members that
\* do not fit the schema (a field mistyped); "num" a JSON scalar; "txt" text
\* that is no JSON; "ws" whitespace
Tokens == {"{", "}", "F", "B", "num", "txt", "ws"}

RawTexts == SeqsUpTo(Tokens, MaxRawLen)

\* json.loads: whitespace between tokens is insignificant
json_loads(t) ==
    LET u == SelectSeq(t, LAMBDA x : x # "ws")
    IN IF u = <<"num">> THEN [ok |-> TRUE, kind |-> "scalar", members |-> "none"]
       ELSE IF u = <<"{", "}">> THEN [ok |-> TRUE, kind |-> "object", members |-> "none"]
       ELSE IF u = <<"{", "F", "}">> THEN [ok |-> TRUE, kind |-> "object", members |-> "F"]
       ELSE IF u = <<"{", "B", "}">> THEN [ok |-> TRUE, kind |-> "object", members |-> "B"]
       ELSE [ok |-> FALSE, kind |-> "none", members |-> "none"]

\* IdentityAnswer(**json.loads(t)): "ok", or the exception raised
Construct(t) ==
    LET d == json_loads(t)
    IN IF ~d.ok THEN "JSONDecodeError"
       ELSE IF d.kind # "object" THEN "TypeError"
       ELSE IF d.members = "F" THEN "ok"
       ELSE "ValidationError"

\* JSON_RE.search(t) with JSON_RE = \{.*?\} : from the first "{" to the
\* first "}" after it
JSON_RE_search(t) ==
    LET opens == {i \in 1..Len(t) : t[i] = "{"}
    IN IF opens = {} THEN [found |-> FALSE, group |-> <<>>]
       ELSE LET i == SetMin(opens)
                closes == {j \in (i + 1)..Len(t) : t[j] = "}"}
            IN IF closes = {} THEN [found |-> FALSE, group |-> <<>>]
               ELSE [found |-> TRUE, group |-> SubSeq(t, i, SetMin(closes))]

\* one iteration of the loop of ask_identity_ai on the reply resp
AttemptOnce(resp) ==
    LET raw == Strip(resp.text, {"ws"})
        fast == Construct(raw)
        m == JSON_RE_search(raw)
        slow == IF m.found THEN Construct(m.group) ELSE "no match"
    IN IF fast = "ok" THEN [kind |-> "answer", answer |-> resp.fields, via |-> "fast"]
       ELSE IF fast = "TypeError" THEN [kind |-> "raise", answer |-> NoAnswer, via |-> "fast"]
       ELSE IF slow = "ok" THEN [kind |-> "answer", answer |-> resp.fields, via |-> "fallback"]
       ELSE IF slow = "TypeError" THEN [kind |-> "raise", answer |-> NoAnswer, via |-> "fallback"]
       ELSE [kind |-> "next", answer |-> NoAnswer, via |-> "none"]

\* the fields a reply carries: those of its "F" token, if it has one
FieldsOf(t) == IF \E i \in 1..Len(t) : t[i] = "F" THEN IdentityAnswer ELSE {NoAnswer}

\* what one iteration can come to, over every reply of the chat model
AttemptOutcomes ==
    UNION {{AttemptOnce([text |-> t, fields |-> a]) : a \in FieldsOf(t)} : t \in RawTexts}

\* max_retries of ask_identity_ai
max_retries == 3

OutcomeSeqs == [1..max_retries -> AttemptOutcomes]

\* the for loop of ask_identity_ai; outs[i] is what the i-th call comes to
RECURSIVE AskLoop(_, _)
AskLoop(outs, i) ==
    IF i > max_retries
    THEN [kind |-> "none", answer |-> NoAnswer, calls |-> i - 1]
    ELSE IF outs[i].kind = "next" THEN AskLoop(outs, i + 1)
    ELSE [kind |-> outs[i].kind, answer |-> outs[i].answer, calls |-> i]

ask_identity_ai(outs) == AskLoop(outs, 1)

\* the ways a call of ask_identity_ai can end
AskReturns == {ask_identity_ai(outs) : outs \in OutcomeSeqs}

\* what main() gets from its call: an answer, None, or the exception
AskResults == {[kind |-> r.kind, answer |-> r.answer] : r \in AskReturns}

(* ------------------------------ state ---------------------------------- *)
VARIABLES
    setup_complete,   \* st.session_state.setup_complete
    identity_type,    \* st.session_state.identity_type
    identity,         \* st.session_state.identity
    question_count,   \* st.session_state.question_count
    game_over,        \* st.session_state.game_over
    messages,         \* st.session_state.messages: sequence of <<sender, message>>
    last,             \* history: the handler that ran last, its input and its answer
    ask_outs,         \* history: what the calls of the last ask_identity_ai came to
    ask_ret,          \* history: how the last ask_identity_ai ended
    gen_resps,        \* history: the replies to the last generate_identity
    gen_ret           \* history: what the last generate_identity returned

vars == <<setup_complete, identity_type, identity, question_count, game_over, messages,
          last, ask_outs, ask_ret, gen_resps, gen_ret>>

Msg(tag, text, n) == [tag |-> tag, text |-> text, n |-> n]

\* reset_game's introduction
Intro == <<"System", Msg("intro", <<>>, 0)>>

\* f"You gave up. The identity was **{identity}**."
GiveUpMessage(id) == <<"System", Msg("give_up", id, 0)>>

\* f"Correct! The identity was **{identity}**. You solved it in **{n}** questions!"
EndMessage(id, n) == <<"System", Msg("correct", id, n)>>

\* "AI returned invalid JSON. Try again."
ErrMessage == <<"System", Msg("invalid_json", <<>>, 0)>>

You(p) == <<"You", Msg("text", p, 0)>>

AI(t) == <<"AI", Msg("text", t, 0)>>

NoRun == [op |-> "none", prompt |-> <<>>, ret |-> "none", answer |-> NoAnswer]

Ran(op) == [NoRun EXCEPT !.op = op]

NoAskRet == [kind |-> "not called", answer |-> NoAnswer, calls |-> 0]

NoGenRet == [none |-> TRUE, text |-> <<>>, calls |-> 0]

\* the session before any handler: init_state sets setup_complete only (its
\* call of reset_game needs setup_complete true and no messages, which never
\* holds: reset_game alone sets setup_complete, and it sets messages too);
\* keys that do not exist yet hold the value their first reader defaults to
SessionInit ==
    /\ setup_complete = FALSE
    /\ identity_type = "Random Character"
    /\ identity = <<>>
    /\ question_count = 0
    /\ game_over = FALSE
    /\ messages = <<>>
    /\ last = NoRun

HistoryInit ==
    /\ ask_outs = <<>>
    /\ ask_ret = NoAskRet
    /\ gen_resps = <<>>
    /\ gen_ret = NoGenRet

Init == SessionInit /\ HistoryInit

(* ----------------------------- handlers -------------------------------- *)
\* a reset that appends the introduction to the old transcript
reset_game_keeping_messages(new_identity) ==
    /\ identity' = IF Truthy(new_identity) THEN new_identity.text ELSE AlbertEinstein
    /\ question_count' = 0
    /\ game_over' = FALSE
    /\ setup_complete' = TRUE
    /\ messages' = Append(messages, Intro)

\* reset_game, given what its call of generate_identity returned
reset_game(new_identity) ==
    /\ identity' = IF Truthy(new_identity) THEN new_identity.text ELSE AlbertEinstein
    /\ question_count' = 0
    /\ game_over' = FALSE
    /\ setup_complete' = TRUE
    /\ messages' = <<Intro>>

\* the "Start Game" button of the setup screen: setup_game, then reset_game
StartGame ==
    /\ ~setup_complete
    /\ \E t \in identity_types :
          /\ identity_type' = t
          /\ \E g \in GenReturns[t] : reset_game(g)
    /\ last' = Ran("start")
    /\ UNCHANGED <<ask_outs, ask_ret, gen_resps, gen_ret>>

\* the "Give Up" button of the sidebar
GiveUp ==
    /\ setup_complete
    /\ Len(messages) + 1 <= MaxMessages
    /\ messages' = Append(messages, GiveUpMessage(identity))
    /\ game_over' = TRUE
    /\ last' = Ran("give_up")
    /\ UNCHANGED <<setup_complete, identity_type, identity, question_count,
                   ask_outs, ask_ret, gen_resps, gen_ret>>

\* the "Restart with Same Settings" button of the end screen
Restart ==
    /\ setup_complete
    /\ game_over
    /\ \E g \in GenReturns[identity_type] : reset_game(g)
    /\ last' = Ran("restart")
    /\ UNCHANGED <<identity_type, ask_outs, ask_ret, gen_resps, gen_ret>>

\* the "New Game Setup" button of the end screen
NewGameSetup ==
    /\ setup_complete
    /\ game_over
    /\ setup_complete' = FALSE
    /\ last' = Ran("new_setup")
    /\ UNCHANGED <<identity_type, identity, question_count, game_over, messages,
                   ask_outs, ask_ret, gen_resps, gen_ret>>

\* what the player types: "a", "?" or "aa?"; an empty input starts no turn
Prompts == {<<"a">>, <<"?">>, <<"a", "a", "?">>}

\* "Hardcode is_question to true for yes/no questions"
YesNoOverride(answer) ==
    IF Lower(answer.response) \in {yes, no}
    THEN [answer EXCEPT !.is_question = TRUE]
    ELSE answer

\* the guess override with a case-sensitive test
GuessOverrideCaseSensitive(answer, prompt, id) ==
    IF Contains(id, prompt)
    THEN [response |-> YesBang, is_question |-> FALSE, is_correct_guess |-> TRUE]
    ELSE answer

\* "Hardcode is_correct_guess to true if the user guessed the identity"
GuessOverride(answer, prompt, id) ==
    IF Contains(Lower(id), Lower(prompt))
    THEN [response |-> YesBang, is_question |-> FALSE, is_correct_guess |-> TRUE]
    ELSE answer

\* the answer main() works with: ask_identity_ai's, after the two overrides
Overridden(r, prompt, id) == GuessOverride(YesNoOverride(r.answer), prompt, id)

\* session_state.messages after a turn: the echo, then the error or the reply,
\* then the end message of a correct guess; an exception out of
\* ask_identity_ai ends the run with the echo alone appended
TurnMessages(msgs, count, id, prompt, r) ==
    LET echoed == Append(msgs, You(prompt))
        answer == Overridden(r, prompt, id)
        replied == Append(echoed, AI(answer.response))
    IN IF r.kind = "raise" THEN echoed
       ELSE IF r.kind = "none" THEN Append(echoed, ErrMessage)
       ELSE IF answer.is_correct_guess THEN Append(replied, EndMessage(id, count + 1))
       ELSE replied

\* session_state.game_over after a turn
TurnGameOver(over, answered, answer) == over \/ (answered /\ answer.is_correct_guess)

\* a count that takes a turn without an answer for a question
TurnCountInvalidCounted(count, over, answered, answer) ==
    IF ~answered THEN count + 1
    ELSE IF answer.is_correct_guess THEN count + 1
    ELSE IF over THEN count
    ELSE IF answer.is_question THEN count + 1
    ELSE count

\* a count without the rerun between the end-game logic and the question count
TurnCountNoRerun(count, over, answered, answer) ==
    IF ~answered THEN count
    ELSE (IF answer.is_correct_guess THEN count + 1 ELSE count)
         + (IF answer.is_question THEN 1 ELSE 0)

\* session_state.question_count after a turn: the end-game logic counts a
\* correct guess; main() reruns there if the game is over, and only otherwise
\* reaches the count of a valid question
TurnCount(count, over, answered, answer) ==
    IF ~answered THEN count
    ELSE IF answer.is_correct_guess THEN count + 1
    ELSE IF over THEN count
    ELSE IF answer.is_question THEN count + 1
    ELSE count

\* the rest of main() once the player has typed prompt and ask_identity_ai ended as r
Turn(prompt, r) ==
    LET answer == Overridden(r, prompt, identity)
        answered == r.kind = "answer"
    IN /\ messages' = TurnMessages(messages, question_count, identity, prompt, r)
       /\ question_count' = TurnCount(question_count, game_over, answered, answer)
       /\ game_over' = TurnGameOver(game_over, answered, answer)
       /\ last' = [op |-> "turn", prompt |-> prompt, ret |-> r.kind,
                   answer |-> IF answered THEN answer ELSE NoAnswer]

\* the player submits an input on the play screen
PlayerInput ==
    /\ setup_complete
    /\ Len(messages) + 3 <= MaxMessages
    /\ \E prompt \in Prompts, r \in AskResults : Turn(prompt, r)
    /\ UNCHANGED <<setup_complete, identity_type, identity,
                   ask_outs, ask_ret, gen_resps, gen_ret>>

Next == StartGame \/ GiveUp \/ Restart \/ NewGameSetup \/ PlayerInput

Spec == Init /\ [][Next]_vars

(* -------------- ask_identity_ai on its own: SpecAsk -------------------- *)
AskCall ==
    /\ ask_ret = NoAskRet
    /\ \E outs \in OutcomeSeqs :
          /\ ask_outs' = outs
          /\ ask_ret' = ask_identity_ai(outs)
    /\ UNCHANGED <<setup_complete, identity_type, identity, question_count, game_over,
                   messages, last, gen_resps, gen_ret>>

NextAsk == AskCall

SpecAsk == Init /\ [][NextAsk]_vars

(* ----------------- reset_game on its own: SpecGen ---------------------- *)
\* the session may hold any tag when reset_game runs
InitGen ==
    /\ setup_complete = FALSE
    /\ identity_type \in AllTags
    /\ identity = <<>>
    /\ question_count = 0
    /\ game_over = FALSE
    /\ messages = <<>>
    /\ last = NoRun
    /\ HistoryInit

ResetCall ==
    /\ last = NoRun
    /\ \E resps \in GenRespSeqs :
          /\ gen_resps' = resps
          /\ gen_ret' = generate_identity(identity_type, resps)
          /\ reset_game(generate_identity(identity_type, resps))
    /\ last' = Ran("reset_game")
    /\ UNCHANGED <<identity_type, ask_outs, ask_ret>>

NextGen == ResetCall

SpecGen == InitGen /\ [][NextGen]_vars

(* ------------------------------ claims --------------------------------- *)
\* the calls of the last ask_identity_ai whose reply validated
Validated == {i \in 1..ask_ret.calls : ask_outs[i].kind = "answer"}

\* C1: ask_identity_ai calls the chat model at most 3 times, returns the
\* answer of the first reply that validates and calls no more after it, and
\* returns None if and only if none of the 3 replies validates.
C1_FirstValidOrNone ==
    ask_ret # NoAskRet =>
        /\ ask_ret.calls <= 3
        /\ Validated # {} =>
              /\ ask_ret.kind = "answer"
              /\ ask_ret.calls = SetMin(Validated)
              /\ ask_ret.answer = ask_outs[SetMin(Validated)].answer
        /\ ask_ret.kind = "none" <=> (ask_ret.calls = 3 /\ Validated = {})

\* C2: ask_identity_ai never raises on a reply: a reply that fails decoding
\* or validation (no JSON, JSON that is no object, an object that does not fit
\* the schema) leads to the next attempt, and when every attempt fails so the
\* result is None.
C2_NeverRaises ==
    ask_ret # NoAskRet =>
        /\ ask_ret.kind # "raise"
        /\ Validated = {} => (ask_ret.kind = "none" /\ ask_ret.calls = 3)

\* the player's input of the last turn holds the identity, whatever the case
Guessed == Contains(Lower(identity), Lower(last.prompt))

C4_YesNoCounted ==
    [][(/\ last'.op = "turn"
        /\ last'.ret = "answer"
        /\ Lower(last'.answer.response) \in {yes, no}
        /\ ~Contains(Lower(identity), Lower(last'.prompt)))
       => (last'.answer.is_question /\ question_count' = question_count + 1)]_vars

\* C5: a turn in which ask_identity_ai returns None leaves the question count,
\* the game-over flag and the identity as they were, appends the player's
\* message and one System error message, and leaves the play screen up for
\* another input.
C5_InvalidTurnNotAdvanced ==
    [][(last'.op = "turn" /\ last'.ret = "none") =>
         /\ question_count' = question_count
         /\ game_over' = game_over
         /\ identity' = identity
         /\ setup_complete'
         /\ messages' = messages \o <<You(last'.prompt), ErrMessage>>]_vars

\* two turns without a valid answer, one after the other
C5_Witness ==
    /\ last.op = "turn"
    /\ last.ret = "none"
    /\ Len(messages) = 5
    /\ messages[3] = ErrMessage
    /\ messages[5] = ErrMessage
    /\ question_count = 0

\* C6: in any turn whose answer is a question and no correct guess, the
\* question count grows by exactly 1 and the transcript by the player's entry
\* followed by the AI's reply.
C6_QuestionCounted ==
    [][(/\ last'.op = "turn"
        /\ last'.ret = "answer"
        /\ last'.answer.is_question
        /\ ~last'.answer.is_correct_guess)
       => /\ question_count' = question_count + 1
          /\ messages' = messages \o <<You(last'.prompt), AI(last'.answer.response)>>]_vars

\* C7: after reset_game the identity is not empty; for each of the five tags
\* the generator calls the chat model exactly 3 times and the identity is the
\* stripped third reply if that is not empty; otherwise, and for a tag the
\* generator does not know (no call, None), it is "Albert Einstein".
C7_IdentityAfterReset ==
    last.op = "reset_game" =>
        /\ identity # <<>>
        /\ IF identity_type \in identity_types
           THEN /\ gen_ret.calls = 3
                /\ identity = IF Strip(gen_resps[3], {" "}) # <<>>
                              THEN Strip(gen_resps[3], {" "})
                              ELSE AlbertEinstein
           ELSE /\ gen_ret.calls = 0
                /\ gen_ret.none
                /\ identity = AlbertEinstein

\* the first reply names an identity, the third is blank: the fallback is used
C7_Witness ==
    /\ last.op = "reset_game"
    /\ identity_type = "Custom"
    /\ gen_resps[1] = <<"A">>
    /\ gen_resps[3] = <<" ">>
    /\ identity = AlbertEinstein

\* C8: starting a game or restarting with the same settings replaces the
\* session: the question count is 0, the game is not over, setup is complete
\* and the transcript is the System introduction alone.
C8_FreshSession ==
    [][last'.op \in {"start", "restart"} =>
         /\ question_count' = 0
         /\ ~game_over'
         /\ setup_complete'
         /\ messages' = <<Intro>>]_vars

\* a restart has replaced the session of a finished game
C8_Witness ==
    /\ last.op = "restart"
    /\ question_count = 0
    /\ messages = <<Intro>>
    /\ ~game_over

\* C9: a turn whose answer is a correct guess raises the question count by
\* exactly 1, also when the answer is a question too, sets the game-over flag,
\* and appends the player's entry, the AI's reply and one System end message.
C9_CorrectGuessCountedOnce ==
    [][(last'.op = "turn" /\ last'.ret = "answer" /\ last'.answer.is_correct_guess) =>
         /\ question_count' = question_count + 1
         /\ game_over'
         /\ messages' = messages \o <<You(last'.prompt), AI(last'.answer.response),
                                     EndMessage(identity, question_count + 1)>>]_vars

\* a correct guess that is flagged as a question as well
C9_Witness ==
    /\ last.op = "turn"
    /\ last.ret = "answer"
    /\ last.answer.is_correct_guess
    /\ last.answer.is_question
    /\ question_count = 1
    /\ game_over

\* C10: once the game is over, nothing but reset_game changes the question
\* count, the transcript or the flag: inputs and give-ups have no effect.
C10_FrozenWhenOver ==
    [][(game_over /\ last'.op \notin {"start", "restart"}) =>
         /\ question_count' = question_count
         /\ messages' = messages
         /\ game_over']_vars

====
